---- MODULE Spec2Model ----
(***************************************************************************)
(* The ingestion and price-refresh pipeline of 3060-deals.                 *)
(*                                                                         *)
(*   src/app/api/admin/ingest/route.ts (lines 1-396)                       *)
(*       POST, waitForFirecrawlJob, mapFirecrawlToProduct,                  *)
(*       normalizeCoolerType: the batch ingest                             *)
(*   src/app/api/admin/products/update-prices/route.ts   POST              *)
(*   src/scripts/update-prices.js    extractPriceFromUrl, updatePrices     *)
(*   src/supabase/migrations/003_add_url_uniqueness_and_cleanup.sql        *)
(*       the products table's UNIQUE(url)                                  *)
(*                                                                         *)
(* An ingest call is a process whose position (pc) moves from one await    *)
(* to the next; what the store and the job service answer is drawn from    *)
(* small sets.                                                             *)
(***************************************************************************)
EXTENDS Integers, Sequences, FiniteSets, TLC

VARIABLES
    env,        \* process.env: which secrets are configured
    store,      \* the products table: a sequence of rows, a row's id is its index
    ing,        \* the ingest calls, by call id
    ref         \* the price-refresh run

vars == <<env, store, ing, ref>>

----------------------------------------------------------------------------
(* Bounds of the model *)

\* Longest url list of a request body.
MaxUrls == 2
\* Longest result array the job service returns.
MaxRecords == 3
\* Longest time one status fetch takes, in ticks.
MaxLatency == 1
\* FIRECRAWL_POLL_INTERVAL (route.ts:6, 2000 ms) and FIRECRAWL_POLL_TIMEOUT
\* (route.ts:7, 600000 ms), scaled to ticks so that a run that stays
\* 'processing' reaches the timeout after a few polls instead of 300.
PollIntervalTicks == 2
PollTimeoutTicks == 5

----------------------------------------------------------------------------
(* Values *)

UrlA == "https://www.newegg.com/p/1"
UrlB == "https://amazon.com/dp/2"
UrlBad == "not a url"
URLS == {UrlA, UrlB, UrlBad}

\* Whether new URL(url) parses (it throws a TypeError otherwise).
ValidUrl(url) == url \in {UrlA, UrlB}

CallIds == {1, 2}

SeqsUpTo(S, n) == UNION {[1..k -> S] : k \in 0..n}

Range(s) == {s[i] : i \in 1..Len(s)}

\* Array.prototype.filter: the elements that pass, in their order.
RECURSIVE Filter(_, _)
Filter(s, keep) ==
    IF s = <<>> THEN <<>>
    ELSE LET rest == Filter(Tail(s), keep)
         IN  IF Head(s) \in keep THEN <<Head(s)>> \o rest ELSE rest

\* JavaScript values: a type and the value's spelling.
Num(v) == [t |-> "number", v |-> v]
Str(v) == [t |-> "string", v |-> v]
Bool(v) == [t |-> "boolean", v |-> v]
Undefined == [t |-> "undefined", v |-> ""]
NaN == Num("NaN")

\* a !== b: NaN differs from everything, itself included.
StrictNotEquals(a, b) == a # b \/ a = NaN \/ b = NaN

\* cooler_type as the extractor writes it.
RawCoolerTypes == {"DUAL", "tripple"}

\* String.prototype.toLowerCase on the strings of the model.
ToLowerCase(s) ==
    CASE s = "DUAL" -> "dual"
      [] s = "Dual" -> "dual"
      [] s = "TRIPLE" -> "triple"
      [] s = "Triple" -> "triple"
      [] s = "Tripple" -> "tripple"
      [] s = "Blower" -> "blower"
      [] OTHER -> s

\* A normalizer that mends the spelling and leaves the capital to a second
\* pass.
normalizeCoolerType_MendsSpelling(coolerType) ==
    IF coolerType = "" THEN ""
    ELSE LET normalized == ToLowerCase(coolerType)
         IN  IF normalized = "dual" THEN "Dual"
             ELSE IF normalized = "triple" THEN "Triple"
             ELSE IF normalized = "tripple" THEN "triple"
             ELSE coolerType

\* The normalizeCoolerType of the single-url ingest (route.ts 414-420).
normalizeCoolerTypeSingle(coolerType) ==
    IF coolerType = "" THEN ""
    ELSE LET normalized == ToLowerCase(coolerType)
         IN  IF normalized = "dual" \/ normalized = "2" THEN "Dual"
             ELSE IF normalized = "triple" \/ normalized = "3" THEN "Triple"
             ELSE coolerType

\* The batch ingest's normalizeCoolerType.
normalizeCoolerType(coolerType) ==
    IF coolerType = "" THEN ""
    ELSE LET normalized == ToLowerCase(coolerType)
         IN  IF normalized = "dual" THEN "Dual"
             ELSE IF normalized = "triple" THEN "Triple"
             ELSE coolerType

\* One element of the job's result: an extracted object, or something that is
\* no object (null).
ExtractedObjects ==
    [kind : {"object"}, cooler_type : RawCoolerTypes, price : {Num("299.99")},
     in_stock : {Bool("true")}]
NotAnObject ==
    [kind |-> "null", cooler_type |-> "", price |-> Undefined, in_stock |-> Undefined]
ExtractedValues == ExtractedObjects \cup {NotAnObject}

\* status.data: absent, one object, or an array.
NoData == [shape |-> "absent", items |-> <<>>]
DataValues ==
    {NoData}
    \cup {[shape |-> "object", items |-> <<o>>] : o \in ExtractedObjects}
    \cup {[shape |-> "array", items |-> a] : a \in SeqsUpTo(ExtractedValues, MaxRecords)}

\* new URL(url).hostname, for a url that parses.
Hostname(url) ==
    CASE url = UrlA -> "www.newegg.com"
      [] url = UrlB -> "amazon.com"

\* host.replace('www.', ''): the first 'www.' of the string is removed.
ReplaceWww(host) ==
    CASE host = "www.newegg.com" -> "newegg.com"
      [] OTHER -> host

\* new URL(url).hostname?.replace('www.', '') || 'unknown' (route.ts 44), for
\* a url that parses.
Retailer(url) ==
    LET host == ReplaceWww(Hostname(url))
    IN  IF host = "" THEN "unknown" ELSE host

\* A row of the products table. price and stock are the columns price_usd and
\* stock_status of the first schema, price and in_stock of the second; the
\* timestamps are ticks.
Row(url, retailer, price, stock, cooler, fetched_at, updated_at) ==
    [url |-> url, retailer |-> retailer, price |-> price, stock |-> stock,
     cooler_type |-> cooler,
     fetched_at |-> fetched_at, updated_at |-> updated_at]

StoreUrls(rows) == {rows[i].url : i \in 1..Len(rows)}

\* mapFirecrawlToProduct: the row to insert, now being what new Date() reads;
\* updated_at is the column's default, NOW().
mapFirecrawlToProduct(extracted, url, now) ==
    Row(url, Retailer(url), extracted.price, extracted.in_stock,
        normalizeCoolerType(extracted.cooler_type), now, now)

\* new URL(url) in mapFirecrawlToProduct throws for a url that does not parse.
MapThrows(url) == ~ValidUrl(url)

----------------------------------------------------------------------------
(* The response of the ingest endpoint: NextResponse.json(body, {status}).   *)
(* keys is the set of the body's keys; a field not in keys holds a filler.  *)

Response(status, success, message, detail, keys, added, dupUrls, errors) ==
    [status |-> status, success |-> success, message |-> message,
     detail |-> detail, keys |-> keys, productsAdded |-> added,
     duplicateCount |-> Len(dupUrls), duplicateUrls |-> dupUrls,
     errors |-> errors]

Failure(status, message, detail) ==
    Response(status, FALSE, message, detail, {"success", "message"}, 0, <<>>, <<>>)

\* The answer of a request that has not been answered.
NoResponse == Response(0, FALSE, "", "", {}, 0, <<>>, <<>>)

NoSubmitReply ==
    [transport |-> FALSE, parseable |-> FALSE, http |-> 0, success |-> FALSE, id |-> "none"]

\* An ingest call: its position, the locals of POST and of waitForFirecrawlJob,
\* and what it has done so far (the n... counters, seen, the ...At fields).
IdleCall ==
    [pc |-> "idle",
     body |-> [kind |-> "none", urls |-> <<>>],
     urls |-> <<>>, existingUrls |-> {},
     duplicateUrls |-> <<>>, newUrls |-> <<>>,
     filtered |-> FALSE, storedAtCall |-> {}, storedAtCheck |-> {},
     submitReply |-> NoSubmitReply,
     elapsed |-> 0, lastPollAt |-> 0, seen |-> <<>>,
     lastData |-> [shape |-> "absent", items |-> <<>>],
     waitResult |-> "pending", pollError |-> "",
     nSubmit |-> 0, nPoll |-> 0, nWait |-> 0, nInsert |-> 0,
     extractedData |-> <<>>, products |-> <<>>, errors |-> <<>>,
     rowsBefore |-> 0, insertError |-> "", response |-> NoResponse,
     clientAborted |-> FALSE, abortedAt |-> ""]

\* The response of the price-refresh endpoint; for the script, whose only
\* output is its log, the counts of its last log line (status 0).
RefreshResponse(status, keys, updated, total, unchanged, errors, error) ==
    [status |-> status, keys |-> keys, updated |-> updated, total |-> total,
     unchanged |-> unchanged, errors |-> errors, error |-> error]

NoRefreshResponse == RefreshResponse(0, {}, 0, 0, 0, <<>>, "")

NoScrapeReply ==
    [transport |-> FALSE, ok |-> FALSE, parseable |-> FALSE, success |-> FALSE,
     hasData |-> FALSE, price |-> Undefined, stock |-> Undefined]

\* A price-refresh run of implementation impl ("route": the endpoint,
\* "script": scripts/update-prices.js): its position, the products it read,
\* the index i of the product it is at, its lists and counters, and what it
\* has done so far (same, updateCalls, the n... counters).
IdleRefresh(impl) ==
    [pc |-> "idle", impl |-> impl, authHeader |-> "",
     products |-> <<>>, i |-> 1,
     updates |-> <<>>, errors |-> <<>>, noChange |-> 0,
     same |-> {}, updateCalls |-> <<>>, lastReply |-> NoScrapeReply,
     replies |-> <<>>,
     run |-> 1, firstReplies |-> <<>>, firstUpdates |-> <<>>,
     firstUpdateCalls |-> <<>>,
     nSelect |-> 0, nScrape |-> 0, now |-> 1,
     response |-> NoRefreshResponse]

----------------------------------------------------------------------------
(* The request bodies of the ingest endpoint *)

Bodies ==
    {[kind |-> "unparseable", urls |-> <<>>], [kind |-> "noarray", urls |-> <<>>]}
    \cup {[kind |-> "array", urls |-> u] : u \in SeqsUpTo(URLS, MaxUrls)}

----------------------------------------------------------------------------
(* The Duplicate Filter: route.ts 135-153 *)

ExistingUrls_NoRow(rows, urls) == {}

\* .from('products').select('url').in('url', urls): the urls of the rows whose
\* url is among urls, as the Set built from them.
ExistingUrls(rows, urls) == {u \in StoreUrls(rows) : u \in Range(urls)}

duplicateUrlsOf(urls, existingUrls) == Filter(urls, existingUrls)

newUrlsOf_Set(urls, existingUrls) ==
    LET RECURSIVE Uniq(_)
        Uniq(u) ==
            IF u = <<>> THEN <<>>
            ELSE IF Head(u) \in Range(Tail(u)) THEN Uniq(Tail(u))
            ELSE <<Head(u)>> \o Uniq(Tail(u))
    IN  Uniq(Filter(urls, URLS \ existingUrls))

newUrlsOf(urls, existingUrls) == Filter(urls, URLS \ existingUrls)

----------------------------------------------------------------------------
(* The job service's answers *)

\* The answer to the submission (POST /v2/extract): the fetch rejects, or a
\* response of some HTTP status whose body parses or not into {success, id}.
SubmitReplies ==
    {[transport |-> FALSE, parseable |-> FALSE, http |-> 0, success |-> FALSE, id |-> ""]}
    \cup [transport : {TRUE}, parseable : BOOLEAN, http : {200, 401, 402, 500},
          success : BOOLEAN, id : {"", "job-1"}]

\* The answer to one status query (GET /v2/extract/{id}).
PollReplies ==
    {[transport |-> FALSE, parseable |-> FALSE, http |-> 0, status |-> "", data |-> NoData]}
    \cup [transport : {TRUE}, parseable : {FALSE}, http : {200, 500},
          status : {""}, data : {NoData}]
    \cup [transport : {TRUE}, parseable : {TRUE}, http : {402, 500},
          status : {"processing"}, data : {NoData}]
    \cup [transport : {TRUE}, parseable : {TRUE}, http : {200},
          status : {"processing", "failed", "cancelled"}, data : {NoData}]
    \cup [transport : {TRUE}, parseable : {TRUE}, http : {200},
          status : {"completed"}, data : DataValues]

\* A loop that takes an HTTP error of the status endpoint for 'not yet' and
\* asks again.
PollThrow_RetriesOnHttpError(reply) ==
    IF ~reply.transport THEN "fetch failed"
    ELSE IF ~reply.parseable THEN "Invalid response from Firecrawl status endpoint"
    ELSE IF reply.http # 200 THEN "wait"
    ELSE IF reply.status = "completed" THEN
        (IF reply.data.shape = "absent"
         THEN "Job completed but no data returned"
         ELSE "return")
    ELSE IF reply.status = "failed" THEN "Firecrawl extraction job failed"
    ELSE IF reply.status = "cancelled" THEN "Firecrawl extraction job was cancelled"
    ELSE "wait"

\* A loop without the check for 'failed': a failed job is polled again.
PollThrow_NoFailedCheck(reply) ==
    IF ~reply.transport THEN "fetch failed"
    ELSE IF ~reply.parseable THEN "Invalid response from Firecrawl status endpoint"
    ELSE IF reply.http # 200 THEN "Firecrawl status check failed"
    ELSE IF reply.status = "completed" THEN
        (IF reply.data.shape = "absent"
         THEN "Job completed but no data returned"
         ELSE "return")
    ELSE IF reply.status = "cancelled" THEN "Firecrawl extraction job was cancelled"
    ELSE "wait"

\* What one iteration of waitForFirecrawlJob's loop does with the answer:
\* "return", "wait", or the message of the Error it throws.
PollThrow(reply) ==
    IF ~reply.transport THEN "fetch failed"
    ELSE IF ~reply.parseable THEN "Invalid response from Firecrawl status endpoint"
    ELSE IF reply.http # 200 THEN
        (IF reply.http = 402
         THEN "Firecrawl account ran out of credits during processing"
         ELSE "Firecrawl status check failed")
    ELSE IF reply.status = "completed" THEN
        (IF reply.data.shape = "absent"
         THEN "Job completed but no data returned"
         ELSE "return")
    ELSE IF reply.status = "failed" THEN "Firecrawl extraction job failed"
    ELSE IF reply.status = "cancelled" THEN "Firecrawl extraction job was cancelled"
    ELSE "wait"

\* Array.isArray(status.data) ? status.data : [status.data]
DataArray(data) ==
    IF data.shape = "array" THEN data.items ELSE <<data.items[1]>>

----------------------------------------------------------------------------
(* The mapping loop: route.ts 311-332 *)

\* newUrls[i] || newUrls[0], for the 1-based index i.
UrlOfResult(newUrls, i) == IF i <= Len(newUrls) THEN newUrls[i] ELSE newUrls[1]

RECURSIVE MapFrom(_, _, _, _, _, _)
MapFrom(i, extractedData, newUrls, now, products, errors) ==
    IF i > Len(extractedData) THEN [products |-> products, errors |-> errors]
    ELSE IF extractedData[i].kind # "object"
    THEN MapFrom(i + 1, extractedData, newUrls, now, products,
                 Append(errors, "Invalid data format received from Firecrawl"))
    ELSE IF MapThrows(UrlOfResult(newUrls, i))
    THEN MapFrom(i + 1, extractedData, newUrls, now, products,
                 Append(errors, "Error processing extracted data: Invalid URL"))
    ELSE MapFrom(i + 1, extractedData, newUrls, now,
                 Append(products,
                        mapFirecrawlToProduct(extractedData[i],
                                              UrlOfResult(newUrls, i), now)),
                 errors)

\* A loop that stops at the first record it cannot map.
MapRecordsOf_StopsAtFirstError(extractedData, newUrls, now) ==
    LET RECURSIVE From(_, _)
        From(i, products) ==
            IF i > Len(extractedData) THEN [products |-> products, errors |-> <<>>]
            ELSE IF extractedData[i].kind # "object"
                    \/ MapThrows(UrlOfResult(newUrls, i))
            THEN [products |-> products,
                  errors |-> <<"Invalid data format received from Firecrawl">>]
            ELSE From(i + 1,
                      Append(products,
                             mapFirecrawlToProduct(extractedData[i],
                                                   UrlOfResult(newUrls, i), now)))
    IN  From(1, <<>>)

MapRecordsOf(extractedData, newUrls, now) ==
    MapFrom(1, extractedData, newUrls, now, <<>>, <<>>)

----------------------------------------------------------------------------
(* The products table *)

\* A constraint that looks at the rows of the statement only.
ViolatesUrlUnique_WithinStatementOnly(rows, products) ==
    \E i, j \in 1..Len(products) : i # j /\ products[i].url = products[j].url

\* products_url_unique: a multi-row INSERT is one statement; it is rejected
\* whole when a new row's url is stored already or occurs twice among the rows.
ViolatesUrlUnique(rows, products) ==
    \/ \E i \in 1..Len(products) : products[i].url \in StoreUrls(rows)
    \/ \E i, j \in 1..Len(products) : i # j /\ products[i].url = products[j].url

UniqueMessage == "duplicate key value violates unique constraint \"products_url_unique\""

\* The errors an insert can end with: none (""), the uniqueness violation, or
\* another failure of the store.
InsertErrors(rows, products) ==
    IF ViolatesUrlUnique(rows, products) THEN {UniqueMessage, "connection error"}
    ELSE {"", "connection error"}

----------------------------------------------------------------------------
(* The ingest endpoint: POST of route.ts, one action per await *)

\* route.ts 115-131: the key check, the body, the url list.
Receive(c) ==
    /\ ing[c].pc = "idle"
    /\ c \in env.calls
    /\ \E body \in Bodies :
        LET got == [ing[c] EXCEPT !.body = body, !.pc = "done",
                                  !.storedAtCall = StoreUrls(store)]
        IN  IF ~env.FIRECRAWL_API_KEY
            THEN ing' = [ing EXCEPT ![c] =
                    [got EXCEPT !.response =
                        Failure(500, "Firecrawl API key not configured", "")]]
            ELSE IF body.kind = "unparseable"
            THEN ing' = [ing EXCEPT ![c] =
                    [got EXCEPT !.response = Failure(500, "Unexpected token", "")]]
            ELSE IF body.kind # "array" \/ Len(body.urls) = 0
            THEN ing' = [ing EXCEPT ![c] =
                    [got EXCEPT !.response = Failure(400, "No URLs provided", "")]]
            ELSE ing' = [ing EXCEPT ![c] =
                    [got EXCEPT !.pc = "checking", !.urls = body.urls]]
    /\ UNCHANGED <<env, store, ref>>

\* route.ts 135-167: the select of the stored urls and the Duplicate Filter.
CheckDuplicates(c) ==
    /\ ing[c].pc = "checking"
    /\ \E queryError \in {"", "connection error"} :
        LET urls == ing[c].urls
            existingUrls == ExistingUrls(store, urls)
            duplicateUrls == duplicateUrlsOf(urls, existingUrls)
            newUrls == newUrlsOf(urls, existingUrls)
            filtered == [ing[c] EXCEPT
                            !.existingUrls = existingUrls,
                            !.duplicateUrls = duplicateUrls,
                            !.newUrls = newUrls,
                            !.filtered = TRUE,
                            !.storedAtCheck = StoreUrls(store)]
        IN  IF queryError # ""
            THEN ing' = [ing EXCEPT ![c] =
                    [ing[c] EXCEPT
                        !.pc = "done",
                        !.storedAtCheck = StoreUrls(store),
                        !.response =
                            Failure(500, "Database error while checking for duplicates: ",
                                    queryError)]]
            ELSE IF Len(newUrls) = 0
            THEN ing' = [ing EXCEPT ![c] =
                    [filtered EXCEPT
                        !.pc = "done",
                        !.response =
                            Response(400, FALSE, "All URL(s) already exist in the database", "",
                                     {"success", "message", "duplicateCount",
                                      "duplicateUrls", "productsAdded"},
                                     0, duplicateUrls, <<>>)]]
            ELSE ing' = [ing EXCEPT ![c] = [filtered EXCEPT !.pc = "submitting"]]
    /\ UNCHANGED <<env, store, ref>>

\* A submission check that does not look at the job id.
SubmitOutcome_NoIdCheck(reply) ==
    IF ~reply.transport THEN Failure(500, "fetch failed", "")
    ELSE IF ~reply.parseable THEN Failure(500, "Failed to parse Firecrawl response", "")
    ELSE IF reply.http # 200 THEN Failure(reply.http, "Firecrawl error: ", "500")
    ELSE IF ~reply.success
    THEN Failure(400, "Firecrawl failed to create extraction job", "")
    ELSE NoResponse

\* What POST does with the answer to the submission (route.ts 248-291): it goes
\* on (NoResponse), or it answers with a failure.
SubmitOutcome(reply) ==
    IF ~reply.transport THEN Failure(500, "fetch failed", "")
    ELSE IF ~reply.parseable THEN Failure(500, "Failed to parse Firecrawl response", "")
    ELSE IF reply.http # 200 THEN
        (IF reply.http = 402
         THEN Failure(402, "Firecrawl account has insufficient credits. Please check your Firecrawl API key and account balance.", "")
         ELSE IF reply.http = 401
         THEN Failure(401, "Firecrawl API key is invalid or expired.", "")
         ELSE Failure(reply.http, "Firecrawl error: ", "500"))
    ELSE IF ~reply.success \/ reply.id = ""
    THEN Failure(400, "Firecrawl failed to create extraction job", "")
    ELSE NoResponse

\* route.ts 179-293: the one submission of the new urls.
Submit(c) ==
    /\ ing[c].pc = "submitting"
    /\ \E reply \in SubmitReplies :
        LET out == SubmitOutcome(reply)
        IN  ing' = [ing EXCEPT ![c] =
                [ing[c] EXCEPT
                    !.nSubmit = @ + 1,
                    !.submitReply = reply,
                    !.pc = IF out = NoResponse THEN "polling" ELSE "done",
                    !.response = out]]
    /\ UNCHANGED <<env, store, ref>>

\* Date.now() in call: the call entered waitForFirecrawlJob at tick 1, after
\* every row of the initial table was written.
Now(call) == 1 + call.elapsed

\* A handler without the check of route.ts 334: the insert is issued also when
\* no record is left.
Mapped_InsertsAnyway(call) ==
    LET m == MapRecordsOf(call.extractedData, call.newUrls, 1 + call.elapsed)
    IN  [call EXCEPT !.pc = "inserting", !.products = m.products, !.errors = m.errors]

\* route.ts 311-344, run when waitForFirecrawlJob has returned: the mapping
\* loop, then the answer when nothing is left, or else the insert is issued.
Mapped(call) ==
    LET m == MapRecordsOf(call.extractedData, call.newUrls, Now(call))
    IN  IF Len(m.products) = 0
        THEN [call EXCEPT
                 !.pc = "done",
                 !.products = m.products,
                 !.errors = m.errors,
                 !.response =
                     Response(400, FALSE,
                              "No products could be extracted from the provided URLs", "",
                              {"success", "message", "errors"}, 0, <<>>, m.errors)]
        ELSE [call EXCEPT
                 !.pc = "inserting",
                 !.products = m.products,
                 !.errors = m.errors]

WithinTimeout_Inclusive(elapsed) == elapsed <= PollTimeoutTicks

\* route.ts 62: the condition of waitForFirecrawlJob's loop.
WithinTimeout(elapsed) == elapsed < PollTimeoutTicks

\* A loop that waits after every answer, the last one too.
Polled_WaitsAfterEveryAnswer(call, reply, latency) ==
    LET what == PollThrow(reply)
        polled == [call EXCEPT
                      !.nPoll = @ + 1,
                      !.nWait = @ + 1,
                      !.lastPollAt = call.elapsed,
                      !.lastData = reply.data,
                      !.elapsed = @ + latency + PollIntervalTicks,
                      !.seen = Append(@, IF reply.transport /\ reply.parseable
                                            /\ reply.http = 200
                                         THEN reply.status ELSE "error")]
    IN  IF what = "wait" THEN polled
        ELSE IF what = "return"
        THEN Mapped([polled EXCEPT
                        !.waitResult = "returned",
                        !.extractedData = DataArray(reply.data)])
        ELSE [polled EXCEPT
                 !.waitResult = "threw",
                 !.pollError = what,
                 !.pc = "done",
                 !.response = Failure(500, "Extraction job error: ", what)]

\* waitForFirecrawlJob, route.ts 63-108: one iteration of the loop, the call
\* before and after it. The status fetch takes latency ticks; a 'processing'
\* answer is followed by the wait. When the function returns, POST goes on to
\* the mapping loop (route.ts 296-344) without an await in between; when it
\* throws, POST answers with the error's message (route.ts 299-308).
Polled(call, reply, latency) ==
    LET what == PollThrow(reply)
        polled == [call EXCEPT
                      !.nPoll = @ + 1,
                      !.lastPollAt = call.elapsed,
                      !.lastData = reply.data,
                      !.seen = Append(@, IF reply.transport /\ reply.parseable
                                            /\ reply.http = 200
                                         THEN reply.status ELSE "error")]
    IN  IF what = "wait"
        THEN [polled EXCEPT
                 !.nWait = @ + 1,
                 !.elapsed = @ + latency + PollIntervalTicks]
        ELSE IF what = "return"
        THEN Mapped([polled EXCEPT
                        !.elapsed = @ + latency,
                        !.waitResult = "returned",
                        !.extractedData = DataArray(reply.data)])
        ELSE [polled EXCEPT
                 !.elapsed = @ + latency,
                 !.waitResult = "threw",
                 !.pollError = what,
                 !.pc = "done",
                 !.response = Failure(500, "Extraction job error: ", what)]

Poll(c) ==
    /\ ing[c].pc = "polling"
    /\ WithinTimeout(ing[c].elapsed)
    /\ \E reply \in PollReplies, latency \in 0..MaxLatency :
        ing' = [ing EXCEPT ![c] = Polled(ing[c], reply, latency)]
    /\ UNCHANGED <<env, store, ref>>

TimeoutMessage == "Firecrawl job timed out after 5 minutes"

\* route.ts 62 and 111: the loop's condition fails and the function throws.
PollTimeout(c) ==
    /\ ing[c].pc = "polling"
    /\ ~WithinTimeout(ing[c].elapsed)
    /\ ing' = [ing EXCEPT ![c] =
            [ing[c] EXCEPT
                !.waitResult = "threw",
                !.pollError = TimeoutMessage,
                !.pc = "done",
                !.response = Failure(500, "Extraction job error: ", TimeoutMessage)]]
    /\ UNCHANGED <<env, store, ref>>

\* route.ts 368-385: the body of the success response.
SuccessResponse(products, duplicateUrls, errors) ==
    Response(200, TRUE, "Successfully added product(s) to the database", "",
             {"success", "message", "productsAdded"}
                 \cup (IF Len(duplicateUrls) > 0
                       THEN {"duplicateCount", "duplicateUrls"} ELSE {})
                 \cup (IF Len(errors) > 0 THEN {"errors"} ELSE {}),
             Len(products),
             IF Len(duplicateUrls) > 0 THEN duplicateUrls ELSE <<>>,
             IF Len(errors) > 0 THEN errors ELSE <<>>)

\* An insert that, when rejected, falls back to the rows that do not collide.
StoreAfterInsert_RowByRow(rows, products, insertError) ==
    IF insertError = "" THEN rows \o products
    ELSE rows \o SelectSeq(products, LAMBDA p : p.url \notin StoreUrls(rows))

\* An insert that replaces the table by its rows.
StoreAfterInsert_Replaces(rows, products, insertError) ==
    IF insertError = "" THEN products ELSE rows

\* route.ts 349-352 on the table: the rows after .insert(products) has ended
\* with insertError. The INSERT is one statement: all of its rows, or none.
StoreAfterInsert(rows, products, insertError) ==
    IF insertError = "" THEN rows \o products ELSE rows

\* route.ts 349-385: the one bulk insert and the answer.
Insert(c) ==
    /\ ing[c].pc = "inserting"
    /\ \E insertError \in InsertErrors(store, ing[c].products) :
        /\ store' = StoreAfterInsert(store, ing[c].products, insertError)
        /\ ing' = [ing EXCEPT ![c] =
                [ing[c] EXCEPT
                    !.pc = "done",
                    !.nInsert = @ + 1,
                    !.rowsBefore = Len(store),
                    !.insertError = insertError,
                    !.response =
                        IF insertError # ""
                        THEN Response(500, FALSE, "Database error: ", insertError,
                                      {"success", "message", "errors"}, 0, <<>>,
                                      <<insertError>> \o ing[c].errors)
                        ELSE SuccessResponse(ing[c].products, ing[c].duplicateUrls,
                                             ing[c].errors)]]
    /\ UNCHANGED <<env, ref>>

----------------------------------------------------------------------------
(* The ingest endpoint, one call at a time *)

\* A table whose urls are distinct, one row per stored url.
RECURSIVE RowsOf(_, _)
RowsOf(urls, stock) ==
    IF urls = <<>> THEN <<>>
    ELSE <<Row(Head(urls),
               IF ValidUrl(Head(urls)) THEN Retailer(Head(urls)) ELSE "unknown",
               Num("299.99"), stock, "Dual", 0, 0)>>
         \o RowsOf(Tail(urls), stock)

StoredUrlLists ==
    {<<>>, <<UrlA>>, <<UrlB>>, <<UrlBad>>, <<UrlA, UrlB>>,
     <<UrlA, UrlBad>>, <<UrlB, UrlBad>>, <<UrlA, UrlB, UrlBad>>}

InitialTables == {RowsOf(u, Bool("true")) : u \in StoredUrlLists}

Init ==
    /\ env \in [FIRECRAWL_API_KEY : BOOLEAN, ADMIN_SECRET_TOKEN : {"s3cret"},
                 calls : {{1}}]
    /\ store \in InitialTables
    /\ ing = [c \in CallIds |-> IdleCall]
    /\ ref = IdleRefresh("route")

IngestStep(c) ==
    \/ Receive(c)
    \/ CheckDuplicates(c)
    \/ Submit(c)
    \/ Poll(c)
    \/ PollTimeout(c)
    \/ Insert(c)

Next == \E c \in CallIds : IngestStep(c)

Spec == Init /\ [][Next]_vars

\* One table, since how long a call polls does not depend on what is stored.
InitOneTable ==
    /\ Init
    /\ env.FIRECRAWL_API_KEY
    /\ store = RowsOf(<<UrlB>>, Bool("true"))

\* Every call that can take a step does: the runtime resumes a call when the
\* answer it awaits arrives, and every answer arrives.
FairSpec ==
    /\ InitOneTable
    /\ [][Next]_vars
    /\ \A c \in CallIds : WF_vars(IngestStep(c))

----------------------------------------------------------------------------
(* Concurrent ingest calls *)

\* The requests and answers of the concurrent runs: every call posts a list
\* of well-formed urls, the submission gets an answer that parses, every
\* status query is answered at once, and the job's result is a list of
\* objects that differ in nothing but their place.
OverlapScenario(call) ==
    /\ call.body.kind \in {"none", "array"}
    /\ UrlBad \notin Range(call.body.urls)
    /\ call.submitReply.transport
         => call.submitReply.parseable /\ call.submitReply.http \in {200, 402}
    /\ call.elapsed = call.nWait * PollIntervalTicks
    /\ \A k \in 1..Len(call.seen) : call.seen[k] # "error"
    /\ \A k \in 1..Len(call.lastData.items) :
        /\ call.lastData.items[k].kind = "object"
        /\ call.lastData.items[k].cooler_type = "DUAL"

\* All calls are in flight at once; a step of one call is taken between any
\* two steps of another.
InitConcurrent ==
    /\ env = [FIRECRAWL_API_KEY |-> TRUE, ADMIN_SECRET_TOKEN |-> "s3cret",
              calls |-> CallIds]
    /\ store \in {RowsOf(<<>>, Bool("true")), RowsOf(<<UrlB>>, Bool("true"))}
    /\ ing = [c \in CallIds |-> IdleCall]
    /\ ref = IdleRefresh("route")

NextConcurrent == \E c \in CallIds : IngestStep(c) /\ OverlapScenario(ing[c])'

SpecConcurrent == InitConcurrent /\ [][NextConcurrent]_vars

----------------------------------------------------------------------------
(* The price refresh: POST of update-prices/route.ts and updatePrices of    *)
(* scripts/update-prices.js                                                 *)

\* parseFloat on the values of the model: a number is itself, a string that
\* starts with a number is that number, anything else is NaN.
ParseFloat(x) ==
    IF x.t = "number" THEN x
    ELSE IF x.t = "string" /\ x.v \in {"299.99", "279.99"} THEN Num(x.v)
    ELSE NaN

\* String.prototype.trim on the strings of the model.
Trim(s) ==
    CASE s = "In Stock " -> "In Stock"
      [] s = " Out of Stock" -> "Out of Stock"
      [] s = " " -> ""
      [] OTHER -> s

\* The Authorization header a request carries ("" when it has none).
AuthHeaders == {"", "Bearer s3cret", "Bearer wrong", "Bearer ", "s3cret"}

\* `Bearer ${expectedToken}`
BearerOf(token) ==
    CASE token = "s3cret" -> "Bearer s3cret"
      [] OTHER -> "Bearer "

Authorized_NoTokenCheck(authHeader, expectedToken) ==
    authHeader = BearerOf(expectedToken)

\* update-prices/route.ts 18-21: whether the request is let in.
Authorized(authHeader, expectedToken) ==
    ~(expectedToken = "" \/ authHeader # BearerOf(expectedToken))

\* What the scrape of one page answers: the fetch rejects, a non-OK status, a
\* body that does not parse, a body without the extracted data, or the data.
ScrapedPrices(impl) ==
    IF impl = "route"
    THEN {Num("299.99"), Num("279.99"), Str("299.99"), Str("$279.99"), Undefined}
    ELSE {Num("299.99"), Num("279.99"), Undefined}

ScrapedStocks(impl) ==
    IF impl = "route"
    THEN {Str("In Stock"), Str("Out of Stock"), Str("In Stock "), Str(" "),
          Undefined, Bool("true")}
    ELSE {Bool("true"), Bool("false"), Undefined}

ScrapeReplies(impl) ==
    {NoScrapeReply,
     [NoScrapeReply EXCEPT !.transport = TRUE],
     [NoScrapeReply EXCEPT !.transport = TRUE, !.ok = TRUE],
     [NoScrapeReply EXCEPT !.transport = TRUE, !.ok = TRUE, !.parseable = TRUE],
     [NoScrapeReply EXCEPT !.transport = TRUE, !.ok = TRUE, !.parseable = TRUE,
                           !.success = TRUE]}
    \cup [transport : {TRUE}, ok : {TRUE}, parseable : {TRUE}, success : {TRUE},
          hasData : {TRUE}, price : ScrapedPrices(impl), stock : ScrapedStocks(impl)]

\* The scrape of a product's page has answered the very price and stock that
\* the row read for the product holds.
SameAsStored(reply, product) ==
    /\ reply.transport /\ reply.ok /\ reply.parseable /\ reply.hasData
    /\ reply.price = product.price
    /\ reply.stock = product.stock

\* update-prices/route.ts 82: newPrice.
RouteNewPrice(reply) == ParseFloat(reply.price)

\* update-prices/route.ts 83: scrapedData.stock_status?.trim() ||
\* product.stock_status (for a stock_status that is a string or is missing).
RouteNewStock(reply, product) ==
    IF reply.stock = Undefined \/ Trim(reply.stock.v) = ""
    THEN product.stock
    ELSE Str(Trim(reply.stock.v))

\* update-prices/route.ts 61-83: whether the iteration throws before it
\* compares: the fetch rejects, the body does not parse, scrapedData is
\* undefined, or stock_status has no trim method.
RouteThrows(reply) ==
    \/ ~reply.transport
    \/ reply.ok /\ ~reply.parseable
    \/ reply.ok /\ ~reply.hasData
    \/ reply.ok /\ reply.stock.t \notin {"string", "undefined"}

RouteChanged_OtherSchema(newPrice, newStock, product) ==
    StrictNotEquals(newPrice, Undefined) \/ StrictNotEquals(newStock, Undefined)

\* update-prices/route.ts 86: the condition of the update.
RouteChanged(newPrice, newStock, product) ==
    StrictNotEquals(newPrice, product.price) \/ StrictNotEquals(newStock, product.stock)

\* The errors the route's update can end with: NaN is serialized as null, which
\* the column price_usd NUMERIC(10, 2) NOT NULL rejects.
RouteUpdateErrors(newPrice) ==
    IF newPrice = NaN
    THEN {"null value in column \"price_usd\" violates not-null constraint"}
    ELSE {"", "connection error"}

\* scripts/update-prices.js 30-88, extractPriceFromUrl: whether it returns null.
ExtractReturnsNull(reply) ==
    ~(reply.transport /\ reply.ok /\ reply.parseable /\ reply.success /\ reply.hasData)

\* scripts/update-prices.js 130-133: priceChanged || stockChanged.
ScriptChanged(reply, product) ==
    StrictNotEquals(reply.price, product.price) \/ StrictNotEquals(reply.stock, product.stock)

\* A column after an update that gives it value: a key whose value is
\* undefined is left out of the request, and the column keeps its value.
ColumnAfter(old, value) == IF value = Undefined THEN old ELSE value

\* The run after the loop's body has ended for the product at i: the next
\* product, or the response after the last one (update-prices/route.ts
\* 107-113, scripts/update-prices.js 172-173).
Advanced(run) ==
    IF run.i < Len(run.products)
    THEN [run EXCEPT !.i = @ + 1, !.now = @ + 1]
    ELSE [run EXCEPT
             !.i = @ + 1,
             !.now = @ + 1,
             !.pc = "done",
             !.response =
                 IF run.impl = "route"
                 THEN RefreshResponse(200,
                          {"success", "updated", "total", "message"}
                              \cup (IF Len(run.errors) > 0 THEN {"errors"} ELSE {}),
                          Len(run.updates), Len(run.products), 0, run.errors, "")
                 ELSE RefreshResponse(0, {}, Len(run.updates), Len(run.products),
                                      run.noChange, run.errors, "")]

WithError_NotRecorded(run) == run

\* errors.push({...}) / errorCount++: the error of the product at i.
WithError(run) == [run EXCEPT !.errors = Append(@, run.i)]

WithUpdateCall(run) ==
    [run EXCEPT !.updateCalls = [@ EXCEPT ![run.i] = @ + 1]]

\* The body of the route's loop for the product at i (update-prices/route.ts
\* 59-105): the run and the table after it.
RouteIteration(run, rows, reply, updateError) ==
    LET product == run.products[run.i]
        newPrice == RouteNewPrice(reply)
        newStock == RouteNewStock(reply, product)
    IN  IF RouteThrows(reply) \/ ~reply.ok
        THEN [run |-> Advanced(WithError(run)), rows |-> rows]
        ELSE IF ~RouteChanged(newPrice, newStock, product)
        THEN [run |-> Advanced(run), rows |-> rows]
        ELSE IF updateError # ""
        THEN [run |-> Advanced(WithError(WithUpdateCall(run))), rows |-> rows]
        ELSE [run |-> Advanced([WithUpdateCall(run) EXCEPT
                                   !.updates = Append(@, run.i)]),
              rows |-> [rows EXCEPT ![run.i] =
                          [@ EXCEPT !.price = newPrice,
                                    !.stock = newStock,
                                    !.updated_at = run.now]]]

\* The body of the script's loop for the product at i (scripts/update-prices.js
\* 118-170).
ScriptIteration(run, rows, reply, updateError) ==
    LET product == run.products[run.i]
    IN  IF ExtractReturnsNull(reply)
        THEN [run |-> Advanced(WithError(run)), rows |-> rows]
        ELSE IF ~ScriptChanged(reply, product)
        THEN [run |-> Advanced([run EXCEPT !.noChange = @ + 1]), rows |-> rows]
        ELSE IF updateError # ""
        THEN [run |-> Advanced(WithError(WithUpdateCall(run))), rows |-> rows]
        ELSE [run |-> Advanced([WithUpdateCall(run) EXCEPT
                                   !.updates = Append(@, run.i)]),
              rows |-> [rows EXCEPT ![run.i] =
                          [@ EXCEPT !.price = ColumnAfter(@, reply.price),
                                    !.stock = ColumnAfter(@, reply.stock),
                                    !.fetched_at = run.now]]]

\* update-prices/route.ts 17-53, scripts/update-prices.js 9-111: the checks
\* and the select of the products.
RefreshStart ==
    /\ ref.pc = "idle"
    /\ \E authHeader \in AuthHeaders, fetchError \in {"", "connection error"} :
        LET run == [ref EXCEPT !.authHeader = authHeader, !.pc = "done"]
            read == [run EXCEPT !.nSelect = @ + 1]
        IN  IF ref.impl = "route" /\ ~Authorized(authHeader, env.ADMIN_SECRET_TOKEN)
            THEN ref' = [run EXCEPT !.response =
                            RefreshResponse(401, {"error"}, 0, 0, 0, <<>>, "Unauthorized")]
            ELSE IF ~env.FIRECRAWL_API_KEY
            THEN ref' = [run EXCEPT !.response =
                            RefreshResponse(IF ref.impl = "route" THEN 500 ELSE 1,
                                            {"error"}, 0, 0, 0, <<>>,
                                            "Firecrawl API key not configured")]
            ELSE IF fetchError # ""
            THEN ref' = [read EXCEPT !.response =
                            RefreshResponse(IF ref.impl = "route" THEN 500 ELSE 0,
                                            {"error"}, 0, 0, 0, <<>>, "Database error: ")]
            ELSE IF Len(store) = 0
            THEN ref' = [read EXCEPT !.response =
                            RefreshResponse(IF ref.impl = "route" THEN 200 ELSE 0,
                                            {"success", "updated", "message"},
                                            0, 0, 0, <<>>, "")]
            ELSE ref' = [read EXCEPT
                            !.pc = "looping",
                            !.products = store,
                            !.updateCalls = [j \in 1..Len(store) |-> 0]]
    /\ UNCHANGED <<env, store, ing>>

\* One iteration of the loop: the scrape of the product's page and, when the
\* values differ, the update of its row.
RefreshOne ==
    /\ ref.pc = "looping"
    /\ \E reply \in ScrapeReplies(ref.impl) :
        LET newPrice == IF ref.impl = "route" THEN RouteNewPrice(reply) ELSE reply.price
            run == [ref EXCEPT
                       !.nScrape = @ + 1,
                       !.lastReply = reply,
                       !.replies = Append(@, reply),
                       !.same = IF SameAsStored(reply, ref.products[ref.i])
                                THEN @ \cup {ref.i} ELSE @]
        IN  \E updateError \in (IF ref.impl = "route"
                                THEN RouteUpdateErrors(newPrice)
                                ELSE {"", "connection error"}) :
                LET after == IF ref.impl = "route"
                             THEN RouteIteration(run, store, reply, updateError)
                             ELSE ScriptIteration(run, store, reply, updateError)
                IN  /\ ref' = after.run
                    /\ store' = after.rows
    /\ UNCHANGED <<env, ing>>

\* The tables a refresh run starts from: the rows the first schema holds for
\* the endpoint (stock_status a string), the second for the script (in_stock
\* a boolean).
InitRefresh ==
    /\ env \in [FIRECRAWL_API_KEY : BOOLEAN, ADMIN_SECRET_TOKEN : {"", "s3cret"},
                calls : {{}}]
    /\ \E impl \in {"route", "script"} :
        /\ ref = IdleRefresh(impl)
        /\ store \in {RowsOf(u, IF impl = "route" THEN Str("In Stock") ELSE Bool("true")) :
                        u \in StoredUrlLists}
    /\ ing = [c \in CallIds |-> IdleCall]

NextRefresh == RefreshStart \/ RefreshOne

SpecRefresh == InitRefresh /\ [][NextRefresh]_vars

----------------------------------------------------------------------------
(* A price-refresh run followed by a second one *)

\* The run is started again after it has ended its loop: nothing is kept of
\* the first run but what the table holds (scripts/update-prices.js 90-111 and
\* update-prices/route.ts 36-56 start from the first row).
RefreshAgain ==
    /\ ref.pc = "done"
    /\ Len(ref.products) > 0
    /\ ref.run = 1
    /\ ref' = [IdleRefresh(ref.impl) EXCEPT
                  !.run = 2,
                  !.now = ref.now,
                  !.firstReplies = ref.replies,
                  !.firstUpdates = ref.updates,
                  !.firstUpdateCalls = ref.updateCalls]
    /\ UNCHANGED <<env, store, ing>>

\* In the second run every page answers what it answered in the first.
UnchangedRemote(run) ==
    run.run = 2 =>
        \A k \in 1..Len(run.replies) : run.replies[k] = run.firstReplies[k]

InitRerun ==
    /\ env = [FIRECRAWL_API_KEY |-> TRUE, ADMIN_SECRET_TOKEN |-> "s3cret",
              calls |-> {}]
    /\ \E impl \in {"route", "script"} :
        /\ ref = IdleRefresh(impl)
        /\ store \in {RowsOf(u, IF impl = "route" THEN Str("In Stock") ELSE Bool("true")) :
                        u \in {<<UrlA>>, <<UrlA, UrlB>>}}
    /\ ing = [c \in CallIds |-> IdleCall]

NextRerun ==
    \/ RefreshStart
    \/ RefreshOne /\ UnchangedRemote(ref)'
    \/ RefreshAgain

SpecRerun == InitRerun /\ [][NextRerun]_vars

----------------------------------------------------------------------------
(* The Field Normalizer on its own: one extracted object is mapped *)

\* cooler_type as extractors have written it: the two words in several
\* spellings, the fan counts, another word, nothing.
CoolerInputs ==
    {"", "dual", "DUAL", "Dual", "2", "triple", "TRIPLE", "Triple",
     "tripple", "Tripple", "3", "Blower", "blower"}

\* The call holds one extracted object for one new url.
HoldsOne(x) ==
    [IdleCall EXCEPT
        !.pc = "mapping",
        !.urls = <<UrlA>>,
        !.newUrls = <<UrlA>>,
        !.filtered = TRUE,
        !.extractedData = <<[kind |-> "object", cooler_type |-> x,
                             price |-> Num("299.99"), in_stock |-> Bool("true")]>>]

\* route.ts 311-344 on the object: mapFirecrawlToProduct and, in it,
\* normalizeCoolerType.
MapOne(c) ==
    /\ ing[c].pc = "mapping"
    /\ ing' = [ing EXCEPT ![c] = Mapped(ing[c])]
    /\ UNCHANGED <<env, store, ref>>

\* route.ts 493-506, the single-url ingest's cleanedData of the object: an
\* object without stock_status gets the empty string.
CleanOne(c) ==
    /\ ing[c].pc = "mapping"
    /\ LET extracted == ing[c].extractedData[1]
           price == IF ParseFloat(extracted.price) = NaN THEN Num("0")
                    ELSE ParseFloat(extracted.price)
       IN  ing' = [ing EXCEPT ![c] =
               [ing[c] EXCEPT
                   !.pc = "cleaned",
                   !.products = <<Row(ing[c].newUrls[1], Trim(""), price, Str(Trim("")),
                                      normalizeCoolerTypeSingle(extracted.cooler_type),
                                      Now(ing[c]), Now(ing[c]))>>]]
    /\ UNCHANGED <<env, store, ref>>

InitNormalize ==
    /\ env = [FIRECRAWL_API_KEY |-> TRUE, ADMIN_SECRET_TOKEN |-> "s3cret",
              calls |-> {}]
    /\ store = <<>>
    /\ ing \in [CallIds -> {HoldsOne(x) : x \in CoolerInputs}]
    /\ ref = IdleRefresh("route")

NextNormalize == \E c \in CallIds : MapOne(c) \/ CleanOne(c)

SpecNormalize == InitNormalize /\ [][NextNormalize]_vars

----------------------------------------------------------------------------
(* The page that posts the ingest request: handleSubmit of                  *)
(* src/app/admin/data-ingest/page.tsx                                       *)

\* AbortSignal.timeout(600000) of page.tsx:44, in ticks: the same span as
\* FIRECRAWL_POLL_TIMEOUT.
ClientTimeoutTicks == PollTimeoutTicks

\* Longest time from the page's fetch to the start of waitForFirecrawlJob (the
\* select of the stored urls and the submission), in ticks.
MaxSetupTicks == 1

\* An abort that reaches the handler and ends it.
ClientAbort_CancelsCall(c) ==
    /\ ing[c].pc \notin {"idle", "done"}
    /\ ~ing[c].clientAborted
    /\ \E setup \in 0..MaxSetupTicks : setup + ing[c].elapsed >= ClientTimeoutTicks
    /\ ing' = [ing EXCEPT ![c] =
            [ing[c] EXCEPT !.clientAborted = TRUE, !.abortedAt = ing[c].pc,
                           !.pc = "done"]]
    /\ UNCHANGED <<env, store, ref>>

\* page.tsx 37-62: the signal's timer fires while the response is awaited; the
\* fetch rejects and the page shows its message. The handler of route.ts reads
\* no signal of the request and goes on.
ClientAbort(c) ==
    /\ ing[c].pc \notin {"idle", "done"}
    /\ ~ing[c].clientAborted
    /\ \E setup \in 0..MaxSetupTicks : setup + ing[c].elapsed >= ClientTimeoutTicks
    /\ ing' = [ing EXCEPT ![c] =
            [ing[c] EXCEPT !.clientAborted = TRUE, !.abortedAt = ing[c].pc]]
    /\ UNCHANGED <<env, store, ref>>

NextClient == \E c \in CallIds : IngestStep(c) \/ ClientAbort(c)

SpecClient == InitOneTable /\ [][NextClient]_vars

----------------------------------------------------------------------------
(* An ingest call and a price-refresh run on the same table *)

\* The answers of the scrapes of the joint runs: a scrape that gives data
\* gives a price that is a number and a stock of the column's type.
RefreshScenario(run) ==
    run.lastReply.hasData =>
        /\ run.lastReply.price.t = "number"
        /\ run.lastReply.stock \in {Str("In Stock"), Str("Out of Stock"),
                                    Bool("true"), Bool("false")}

InitLifecycle ==
    /\ env = [FIRECRAWL_API_KEY |-> TRUE, ADMIN_SECRET_TOKEN |-> "s3cret",
              calls |-> {1}]
    /\ \E impl \in {"route", "script"} :
        /\ ref = IdleRefresh(impl)
        /\ store = RowsOf(<<UrlB>>, IF impl = "route" THEN Str("In Stock")
                                    ELSE Bool("true"))
    /\ ing = [c \in CallIds |-> IdleCall]

NextLifecycle ==
    \/ \E c \in CallIds : IngestStep(c) /\ OverlapScenario(ing[c])'
    \/ (RefreshStart \/ RefreshOne) /\ RefreshScenario(ref)'

SpecLifecycle == InitLifecycle /\ [][NextLifecycle]_vars

----------------------------------------------------------------------------
(* Properties of the ingest endpoint *)

\* The request of call c gave a non-empty url list, every url of which was
\* stored when the request arrived.
AllDuplicates(c) ==
    /\ ing[c].pc # "idle"
    /\ ing[c].body.kind = "array"
    /\ Len(ing[c].body.urls) >= 1
    /\ Range(ing[c].body.urls) \subseteq ing[c].storedAtCall

\* C1 as stated: every ingest call whose input urls (N >= 1 of them) are all
\* stored already answers success=false, productsAdded=0 and duplicateCount=N,
\* and submits no job and issues no status poll.
C1_AllDuplicatesAsStated ==
    \A c \in CallIds :
        (AllDuplicates(c) /\ ing[c].pc = "done") =>
            /\ ing[c].response.success = FALSE
            /\ "productsAdded" \in ing[c].response.keys
            /\ ing[c].response.productsAdded = 0
            /\ "duplicateCount" \in ing[c].response.keys
            /\ ing[c].response.duplicateCount = Len(ing[c].body.urls)
            /\ ing[c].nSubmit = 0
            /\ ing[c].nPoll = 0

\* C1, amended: an ingest call whose input urls (N >= 1 of them) are all stored
\* already submits no job, issues no status poll and answers success=false;
\* when the API key is configured and the duplicate-check query succeeds, the
\* answer carries productsAdded=0 and duplicateCount=N; otherwise it is a 500
\* failure without these two fields.
C1_AllDuplicates ==
    \A c \in CallIds :
        AllDuplicates(c) =>
            /\ ing[c].nSubmit = 0
            /\ ing[c].nPoll = 0
            /\ ing[c].nInsert = 0
            /\ ing[c].pc \in {"checking", "done"}
            /\ ing[c].pc = "done" =>
                /\ ing[c].response.success = FALSE
                /\ ing[c].filtered =>
                    /\ ing[c].response.status = 400
                    /\ {"productsAdded", "duplicateCount"} \subseteq ing[c].response.keys
                    /\ ing[c].response.productsAdded = 0
                    /\ ing[c].response.duplicateCount = Len(ing[c].body.urls)
                    /\ ing[c].response.duplicateUrls = ing[c].body.urls
                /\ ~ing[c].filtered =>
                    /\ ing[c].response.status = 500
                    /\ ing[c].response.keys = {"success", "message"}

C1_Witness ==
    \E c \in CallIds :
        /\ AllDuplicates(c)
        /\ ing[c].pc = "done"
        /\ ing[c].filtered
        /\ Len(ing[c].body.urls) = 2
        /\ ing[c].response.duplicateCount = 2

\* C2: the bulk insert of a call is never rejected by the store for a
\* duplicate url (the Duplicate Filter has removed every such url before).
C2_InsertNeverRejectedAsDuplicate ==
    \A c \in CallIds : ing[c].insertError # UniqueMessage

\* C3: the Duplicate Filter partitions the input url sequence against the
\* stored urls: newUrls is the input urls that are not stored, in input order,
\* duplicateUrls is the input urls that are stored, every input url is in
\* exactly one of the two, and the two lengths add up to the input's.
C3_DuplicateFilterPartitions ==
    \A c \in CallIds :
        ing[c].filtered =>
            LET urls == ing[c].body.urls
                stored == ing[c].storedAtCheck
                IsNew(u) == u \notin stored
                IsStored(u) == u \in stored
            IN  /\ ing[c].newUrls = SelectSeq(urls, IsNew)
                /\ ing[c].duplicateUrls = SelectSeq(urls, IsStored)
                /\ Range(ing[c].newUrls) \cap Range(ing[c].duplicateUrls) = {}
                /\ Range(ing[c].newUrls) \cup Range(ing[c].duplicateUrls) = Range(urls)
                /\ Len(ing[c].newUrls) + Len(ing[c].duplicateUrls) = Len(urls)

C3_Witness ==
    \E c \in CallIds :
        /\ ing[c].filtered
        /\ ing[c].body.urls = <<UrlA, UrlB>>
        /\ ing[c].newUrls = <<UrlA>>
        /\ ing[c].duplicateUrls = <<UrlB>>

\* The last status call c has seen.
LastSeen(c) == ing[c].seen[Len(ing[c].seen)]

\* How many 'processing' answers call c has seen.
NProcessing(c) == Cardinality({i \in 1..Len(ing[c].seen) : ing[c].seen[i] = "processing"})

\* C4: awaitCompletion always terminates. No status query is issued once the
\* elapsed time has reached the timeout (so the number of queries is bounded),
\* the timeout error is thrown only when it has, and a call that is polling
\* eventually stops polling, with a result or with an error.
C4_AwaitCompletionTerminates ==
    /\ [](\A c \in CallIds :
            ing[c].nPoll > 0 =>
                /\ ing[c].lastPollAt < PollTimeoutTicks
                /\ (ing[c].nPoll - 1) * PollIntervalTicks <= ing[c].lastPollAt)
    /\ [](\A c \in CallIds :
            ing[c].pollError = TimeoutMessage => ing[c].elapsed >= PollTimeoutTicks)
    /\ \A c \in CallIds :
            (ing[c].pc = "polling") ~>
                (ing[c].pc # "polling" /\ ing[c].waitResult \in {"returned", "threw"})

\* A job that stayed 'processing' until the timeout.
C4_Witness ==
    \E c \in CallIds :
        /\ ing[c].pc = "done"
        /\ ing[c].pollError = TimeoutMessage
        /\ ing[c].seen = <<"processing", "processing", "processing">>

\* C5: when the job answers n times 'processing' and then 'completed' with
\* data, awaitCompletion returns that payload after exactly n waits and n + 1
\* status queries: no wait and no query follows the terminal answer.
C5_WaitsAndQueries ==
    \A c \in CallIds :
        ing[c].waitResult = "returned" =>
            LET n == NProcessing(c)
            IN  /\ ing[c].seen = [i \in 1..(n + 1) |->
                                    IF i <= n THEN "processing" ELSE "completed"]
                /\ ing[c].nWait = n
                /\ ing[c].nPoll = n + 1
                /\ ing[c].lastData.shape # "absent"
                /\ ing[c].extractedData =
                        IF ing[c].lastData.shape = "array"
                        THEN ing[c].lastData.items
                        ELSE <<ing[c].lastData.items[1]>>
                /\ ing[c].elapsed >= n * PollIntervalTicks

C5_Witness ==
    \E c \in CallIds :
        /\ ing[c].waitResult = "returned"
        /\ ing[c].seen = <<"processing", "processing", "completed">>
        /\ ing[c].nWait = 2
        /\ Len(ing[c].extractedData) = 2

\* C6: the first terminal status decides. Every status before it was
\* 'processing'; 'completed' with data returns the result set, one object as a
\* one-element sequence; 'completed' without data, 'failed' and 'cancelled'
\* each make the call answer success=false with the matching message, without
\* any insert.
C6_FirstTerminalStatusDecides ==
    \A c \in CallIds :
        (ing[c].nPoll > 0 /\ LastSeen(c) \in {"completed", "failed", "cancelled"}) =>
            LET data == ing[c].lastData
                Fails(message) ==
                    /\ ing[c].waitResult = "threw"
                    /\ ing[c].pollError = message
                    /\ ing[c].pc = "done"
                    /\ ing[c].response.success = FALSE
                    /\ ing[c].response.message = "Extraction job error: "
                    /\ ing[c].response.detail = message
                    /\ ing[c].nInsert = 0
                    /\ StoreUrls(store) = ing[c].storedAtCheck
            IN  /\ \A i \in 1..(Len(ing[c].seen) - 1) : ing[c].seen[i] = "processing"
                /\ ing[c].nPoll = Len(ing[c].seen)
                /\ (LastSeen(c) = "completed" /\ data.shape = "array") =>
                        (ing[c].waitResult = "returned" /\ ing[c].extractedData = data.items)
                /\ (LastSeen(c) = "completed" /\ data.shape = "object") =>
                        /\ ing[c].waitResult = "returned"
                        /\ Len(ing[c].extractedData) = 1
                        /\ ing[c].extractedData[1] = data.items[1]
                /\ (LastSeen(c) = "completed" /\ data.shape = "absent") =>
                        Fails("Job completed but no data returned")
                /\ LastSeen(c) = "failed" => Fails("Firecrawl extraction job failed")
                /\ LastSeen(c) = "cancelled" =>
                        Fails("Firecrawl extraction job was cancelled")

C6_Witness ==
    \E c \in CallIds :
        /\ ing[c].pc = "done"
        /\ ing[c].seen = <<"processing", "cancelled">>
        /\ ing[c].response.detail = "Firecrawl extraction job was cancelled"

\* The results of call c that cannot be mapped: those that are no object and
\* those whose url (the one at the result's position) does not parse.
MalformedResults(c) ==
    {i \in 1..Len(ing[c].extractedData) :
        \/ ing[c].extractedData[i].kind # "object"
        \/ ~ValidUrl(IF i <= Len(ing[c].newUrls)
                     THEN ing[c].newUrls[i] ELSE ing[c].newUrls[1])}

\* C7: partial success. When extraction returns k records of which m are
\* malformed and k - m >= 1, the malformed ones do not abort the batch: the
\* insert is issued, and when it succeeds the call answers success=true,
\* productsAdded = k - m and an errors list of length m (no errors list when
\* m = 0), with k - m rows added to the table.
C7_PartialSuccess ==
    \A c \in CallIds :
        ing[c].waitResult = "returned" =>
            LET k == Len(ing[c].extractedData)
                m == Cardinality(MalformedResults(c))
            IN  /\ k - m >= 1 =>
                    /\ ing[c].pc \in {"inserting", "done"}
                    /\ ing[c].pc = "done" => ing[c].nInsert = 1
                /\ (ing[c].pc = "done" /\ ing[c].nInsert = 1 /\ ing[c].insertError = "") =>
                    /\ k - m >= 1
                    /\ ing[c].response.success = TRUE
                    /\ ing[c].response.status = 200
                    /\ ing[c].response.productsAdded = k - m
                    /\ Len(ing[c].response.errors) = m
                    /\ ("errors" \in ing[c].response.keys) <=> (m > 0)
                    /\ Len(store) = ing[c].rowsBefore + k - m

C7_Witness ==
    \E c \in CallIds :
        /\ ing[c].pc = "done"
        /\ Len(ing[c].extractedData) = 3
        /\ Cardinality(MalformedResults(c)) = 1
        /\ ing[c].response.success = TRUE
        /\ ing[c].response.productsAdded = 2
        /\ Len(ing[c].response.errors) = 1

\* C8: a call performs at most one bulk insert; when that insert fails the
\* call answers success=false and the table is as it was: none of the batch's
\* records is in it, none was inserted one by one.
C8_InsertFailureIsFatal ==
    \A c \in CallIds :
        /\ ing[c].nInsert <= 1
        /\ ing[c].insertError # "" =>
            /\ ing[c].pc = "done"
            /\ ing[c].nInsert = 1
            /\ ing[c].response.success = FALSE
            /\ ing[c].response.status = 500
            /\ ing[c].response.errors = <<ing[c].insertError>> \o ing[c].errors
            /\ Len(store) = ing[c].rowsBefore
            /\ StoreUrls(store) = ing[c].storedAtCheck
            /\ \A i \in 1..Len(ing[c].products) :
                    ing[c].products[i].url \notin StoreUrls(store)

C8_Witness ==
    \E c \in CallIds :
        /\ ing[c].pc = "done"
        /\ ing[c].insertError = "connection error"
        /\ Len(ing[c].products) = 2

\* The submission of call c failed: no response, one that does not parse, a
\* non-OK status, or one without the success flag or without a job id.
SubmissionFailed(c) ==
    /\ ing[c].nSubmit >= 1
    /\ \/ ~ing[c].submitReply.transport
       \/ ~ing[c].submitReply.parseable
       \/ ing[c].submitReply.http # 200
       \/ ~ing[c].submitReply.success
       \/ ing[c].submitReply.id = ""

\* C9: when the job submission fails the call answers success=false with a
\* message, issues no status poll and writes nothing to the store.
C9_SubmissionFailure ==
    \A c \in CallIds :
        SubmissionFailed(c) =>
            /\ ing[c].pc = "done"
            /\ ing[c].nSubmit = 1
            /\ ing[c].response.success = FALSE
            /\ ing[c].response.message # ""
            /\ "message" \in ing[c].response.keys
            /\ ing[c].nPoll = 0
            /\ ing[c].nInsert = 0
            /\ StoreUrls(store) = ing[c].storedAtCheck

C9_Witness ==
    \E c \in CallIds :
        /\ SubmissionFailed(c)
        /\ ing[c].submitReply.http = 200
        /\ ing[c].submitReply.success
        /\ ing[c].submitReply.id = ""
        /\ ing[c].pc = "done"

\* C15: every record that ingestion has written to the store has a
\* cooler_type of the canonical set {Dual, Triple}; raw scraped text is never
\* stored as cooler_type.
C15_StoredCoolerTypeIsCanonical ==
    \A c \in CallIds :
        (ing[c].nInsert = 1 /\ ing[c].insertError = "")
            => \A k \in (ing[c].rowsBefore + 1)..Len(store) :
                   store[k].cooler_type \in {"Dual", "Triple"}

\* The store has failed the call: the select of the stored urls or the bulk
\* insert has ended with an error.
StoreFailed(c) ==
    \/ ing[c].pc = "done" /\ ing[c].body.kind = "array" /\ Len(ing[c].body.urls) >= 1
         /\ env.FIRECRAWL_API_KEY /\ ~ing[c].filtered /\ ing[c].nSubmit = 0
    \/ ing[c].nInsert = 1 /\ ing[c].insertError # ""

\* At least one record of the call has been inserted.
InsertedSome(c) ==
    ing[c].nInsert = 1 /\ ing[c].insertError = "" /\ Len(ing[c].products) >= 1

\* C17: the HTTP status of the ingest endpoint follows the outcome: 400 when
\* all input urls are duplicates, 500 for every submission failure and every
\* store failure, a 2xx status when at least one record has been inserted,
\* also when some records failed the mapping.
C17_StatusFollowsOutcome ==
    \A c \in CallIds :
        ing[c].pc = "done" =>
            /\ (AllDuplicates(c) /\ ing[c].filtered) => ing[c].response.status = 400
            /\ SubmissionFailed(c) => ing[c].response.status = 500
            /\ StoreFailed(c) => ing[c].response.status = 500
            /\ InsertedSome(c) => ing[c].response.status \in 200..299

\* The retailer the claim describes: the hostname of the url without a
\* leading 'www.', and 'unknown' for a url that cannot be parsed.
StatedRetailer(url) ==
    CASE url = UrlA -> "newegg.com"
      [] url = UrlB -> "amazon.com"
      [] OTHER -> "unknown"

\* The objects among the job's results, by their place.
ObjectResults(c) ==
    {k \in 1..Len(ing[c].extractedData) : ing[c].extractedData[k].kind = "object"}

\* C21: the derivation of the retailer is total: every record is mapped with
\* the retailer of its own url, the hostname without a leading 'www.', and a
\* url that cannot be parsed gives 'unknown' instead of an error.
C21_RetailerDerivationIsTotal ==
    \A c \in CallIds :
        ing[c].waitResult = "returned" =>
            /\ Len(ing[c].products) = Cardinality(ObjectResults(c))
            /\ \A k \in 1..Len(ing[c].products) :
                ing[c].products[k].retailer = StatedRetailer(ing[c].products[k].url)

\* The submitted urls past the end of the job's results, by their place.
SurplusUrls(c) == (Len(ing[c].extractedData) + 1)..Len(ing[c].newUrls)

\* C22: when the job returns fewer records than urls were submitted, the call
\* does not fail on an index out of bounds, stores no record for a surplus
\* url, and reports each surplus url as a processing error in errors.
C22_SurplusUrlsAreReported ==
    \A c \in CallIds :
        (ing[c].waitResult = "returned" /\ SurplusUrls(c) # {}) =>
            /\ ing[c].pc \in {"inserting", "done"}
            /\ Len(ing[c].products) <= Len(ing[c].extractedData)
            /\ Len(ing[c].errors) >=
                 Cardinality(SurplusUrls(c))
                 + Len(ing[c].extractedData) - Len(ing[c].products)

\* The places of the job's results that the loop has mapped to a record, in
\* the order of the records.
MappedPlaces(c) ==
    SelectSeq([k \in 1..Len(ing[c].extractedData) |-> k],
              LAMBDA k : /\ ing[c].extractedData[k].kind = "object"
                         /\ ~MapThrows(UrlOfResult(ing[c].newUrls, k)))

\* C23: the mapping of results to urls is positional: every record passed to
\* the bulk insert that came from the result at place i carries the url at
\* place i of newUrls, whether the job returns fewer records than urls were
\* submitted, as many, or more.
C23_MappingIsPositional ==
    \A c \in CallIds :
        ing[c].waitResult = "returned" =>
            /\ Len(ing[c].products) = Len(MappedPlaces(c))
            /\ \A j \in 1..Len(ing[c].products) :
                /\ MappedPlaces(c)[j] <= Len(ing[c].newUrls)
                /\ ing[c].products[j].url = ing[c].newUrls[MappedPlaces(c)[j]]

\* C24: when no returned record survives the mapping, every record being
\* malformed or the result set empty, the call answers success=false with the
\* errors it has collected and issues no insert.
C24_NothingMappedIsAFailure ==
    \A c \in CallIds :
        (ing[c].waitResult = "returned" /\ Len(MappedPlaces(c)) = 0) =>
            /\ ing[c].pc = "done"
            /\ ing[c].products = <<>>
            /\ ing[c].response.success = FALSE
            /\ "errors" \in ing[c].response.keys
            /\ ing[c].response.errors = ing[c].errors
            /\ Len(ing[c].errors) = Len(ing[c].extractedData)
            /\ ing[c].nInsert = 0
            /\ StoreUrls(store) = ing[c].storedAtCheck

C24_Witness ==
    \E c \in CallIds :
        /\ ing[c].waitResult = "returned"
        /\ Len(ing[c].extractedData) = 2
        /\ ing[c].extractedData[1].kind = "null"
        /\ ing[c].extractedData[2].kind = "object"
        /\ ing[c].products = <<>>
        /\ Len(ing[c].response.errors) = 2
        /\ ing[c].response.status = 400

\* C25: ingestion does not retry: a transport, HTTP or parse error of one
\* status query ends the polling at once with an error, no status query
\* follows it, the call answers success=false, and a call submits at most one
\* job and issues at most one bulk insert.
C25_NoRetry ==
    \A c \in CallIds :
        /\ ing[c].nSubmit <= 1
        /\ ing[c].nInsert <= 1
        /\ \A k \in 1..Len(ing[c].seen) :
            ing[c].seen[k] = "error" =>
                /\ k = Len(ing[c].seen)
                /\ ing[c].nPoll = k
                /\ ing[c].waitResult = "threw"
                /\ ing[c].pc = "done"
                /\ ing[c].response.success = FALSE
                /\ ing[c].response.message # ""
                /\ ing[c].nInsert = 0

C25_Witness ==
    \E c \in CallIds :
        /\ ing[c].seen = <<"processing", "error">>
        /\ ing[c].nPoll = 2
        /\ ing[c].nSubmit = 1
        /\ ing[c].pc = "done"
        /\ ing[c].elapsed < PollTimeoutTicks

----------------------------------------------------------------------------
(* Properties of the price refresh *)

\* C10: in a price-refresh run, a record whose scraped price and stock equal
\* its stored price and stock triggers no store update call and is not counted
\* in 'updated'; its row stays as it was read.
C10_UnchangedRecordIsNotUpdated ==
    \A id \in ref.same :
        /\ ref.updateCalls[id] = 0
        /\ id \notin Range(ref.updates)
        /\ store[id] = ref.products[id]
        /\ ref.pc = "done" => ref.response.updated <= Len(ref.products) - Cardinality(ref.same)

C10_Witness ==
    /\ ref.pc = "done"
    /\ Len(ref.products) = 2
    /\ ref.same = {1}
    /\ ref.updates = <<2>>
    /\ ref.response.updated = 1

\* The scrape of the product's page has answered a price, a number, that is
\* not the price of the row read for the product.
PriceDiffers(reply, product) ==
    /\ reply.transport /\ reply.ok /\ reply.parseable /\ reply.hasData
    /\ reply.price.t = "number"
    /\ reply.price # product.price

\* C11: in a price-refresh run, a record whose scraped price differs from its
\* stored price (and whose iteration has recorded no error) triggers exactly
\* one store update for the record, and the update writes the new price and
\* advances the record's updated_at.
C11_ChangedPriceIsUpdatedOnce ==
    \A id \in 1..Len(ref.replies) :
        (PriceDiffers(ref.replies[id], ref.products[id]) /\ id \notin Range(ref.errors))
            => /\ ref.updateCalls[id] = 1
               /\ store[id].price = ref.replies[id].price
               /\ store[id].updated_at > ref.products[id].updated_at

\* The scrape of a page has given no data: the fetch rejected, the status was
\* not OK, the body did not parse or held no extracted data.
ScrapeFailed(reply) ==
    ~(reply.transport /\ reply.ok /\ reply.parseable /\ reply.hasData)

\* The number of places of the sequence s that hold x.
Occurrences(s, x) == Cardinality({k \in 1..Len(s) : s[k] = x})

\* The run has read a non-empty table and has ended its loop.
RefreshCompleted == ref.pc = "done" /\ Len(ref.products) > 0

\* C12: a price-refresh run visits every record it has read exactly once,
\* whatever fails: a failed scrape or a failed update of a record adds one
\* entry to the error list, is not counted as updated, and the run goes on to
\* the next record; at the end total is the number of records read and
\* updated + unchanged + failed = total.
C12_EveryRecordVisitedOnce ==
    /\ Len(ref.replies) = ref.nScrape
    /\ ref.nScrape = (IF ref.pc = "looping" THEN ref.i - 1 ELSE Len(ref.products))
    /\ \A id \in 1..Len(ref.replies) :
        LET failedUpdate == ref.updateCalls[id] = 1 /\ store[id] = ref.products[id]
                            /\ id \notin Range(ref.updates)
        IN  /\ ref.updateCalls[id] <= 1
            /\ Occurrences(ref.errors, id) + Occurrences(ref.updates, id) <= 1
            /\ ScrapeFailed(ref.replies[id])
                 => Occurrences(ref.errors, id) = 1 /\ ref.updateCalls[id] = 0
            /\ failedUpdate => Occurrences(ref.errors, id) = 1
            /\ id \in Range(ref.updates) => ref.updateCalls[id] = 1
    /\ RefreshCompleted =>
        LET unchanged == Cardinality({id \in 1..Len(ref.products) :
                            /\ ref.updateCalls[id] = 0
                            /\ id \notin Range(ref.errors)})
        IN  /\ ref.response.total = Len(ref.products)
            /\ ref.response.updated = Len(ref.updates)
            /\ ref.response.errors = ref.errors
            /\ ref.response.updated + unchanged + Len(ref.response.errors)
                 = ref.response.total
            /\ ref.impl = "script" => ref.response.unchanged = unchanged

C12_Witness ==
    /\ RefreshCompleted
    /\ Len(ref.products) = 3
    /\ ScrapeFailed(ref.replies[1])
    /\ ref.updateCalls = <<0, 1, 1>>
    /\ ref.errors = <<1, 2>>
    /\ ref.updates = <<3>>

\* The request's Authorization header is exactly 'Bearer <configured secret>'.
ExactBearer ==
    /\ env.ADMIN_SECRET_TOKEN = "s3cret"
    /\ ref.authHeader = "Bearer s3cret"

\* C13: the price-refresh endpoint answers 401 to every request whose
\* Authorization header is not exactly 'Bearer <configured secret>', also when
\* no secret is configured, and then reads nothing from the store, scrapes
\* nothing and updates nothing.
C13_UnauthorizedIsRejected ==
    (ref.impl = "route" /\ ref.pc # "idle" /\ ~ExactBearer)
        => /\ ref.pc = "done"
           /\ ref.response.status = 401
           /\ ref.response.keys = {"error"}
           /\ ref.nSelect = 0
           /\ ref.nScrape = 0
           /\ ref.products = <<>>
           /\ ref.updates = <<>>
           /\ ref.updateCalls = <<>>

C13_Witness ==
    /\ ref.impl = "route"
    /\ ref.pc = "done"
    /\ env.ADMIN_SECRET_TOKEN = ""
    /\ env.FIRECRAWL_API_KEY
    /\ ref.authHeader = "Bearer "
    /\ Len(store) > 0
    /\ ref.response.status = 401

\* C16: a record's fetched_at never decreases, and every successful
\* price-refresh update that touches the record advances it. (That the ingest
\* which creates a record sets its fetched_at is mapFirecrawlToProduct.)
C16_FetchedAtAdvances ==
    \A id \in 1..Len(ref.products) :
        /\ store[id].fetched_at >= ref.products[id].fetched_at
        /\ id \in Range(ref.updates)
             => store[id].fetched_at > ref.products[id].fetched_at

\* The ingest call has ended in a failure: nothing of it has been inserted.
IngestFailed(c) == ing[c].pc = "done" /\ ~InsertedSome(c)

\* The endpoint's run has ended in a failure: it has answered with an error
\* status.
RefreshFailed == ref.impl = "route" /\ ref.pc = "done" /\ ref.response.status >= 400

\* C18: every failure path of the ingest endpoint and of the price-refresh
\* endpoint ends in a structured response that carries the success flag, false,
\* and a message or an errors payload.
C18_FailuresAreStructured ==
    /\ \A c \in CallIds :
        IngestFailed(c) =>
            /\ "success" \in ing[c].response.keys
            /\ ing[c].response.success = FALSE
            /\ ing[c].response.status >= 400
            /\ "message" \in ing[c].response.keys /\ ing[c].response.message # ""
    /\ RefreshFailed =>
            /\ "success" \in ref.response.keys
            /\ {"message", "errors"} \cap ref.response.keys # {}

----------------------------------------------------------------------------
(* Properties of concurrent ingest calls *)

UrlsUnique(rows) ==
    \A i, j \in 1..Len(rows) : i # j => rows[i].url # rows[j].url

\* The call's Duplicate Filter has let url through: the url was not stored
\* when the call selected the stored urls.
PassedDuplicateCheck(c, url) ==
    /\ ing[c].filtered
    /\ url \in Range(ing[c].newUrls)
    /\ url \notin ing[c].storedAtCheck

InsertedUrls(c) ==
    IF ing[c].nInsert = 1 /\ ing[c].insertError = ""
    THEN {ing[c].products[k].url : k \in 1..Len(ing[c].products)}
    ELSE {}

\* C14: under every interleaving of concurrent ingest calls with overlapping
\* urls the store never holds two records with the same url: the duplicate
\* check of both calls can pass, and of the inserts that carry the same url
\* only one is accepted.
C14_ConcurrentCallsKeepUrlsUnique ==
    /\ UrlsUnique(store)
    /\ \A c, d \in CallIds : c # d => InsertedUrls(c) \cap InsertedUrls(d) = {}

C14_Witness ==
    /\ PassedDuplicateCheck(1, UrlA)
    /\ PassedDuplicateCheck(2, UrlA)
    /\ UrlA \in InsertedUrls(1)
    /\ ing[2].nInsert = 1
    /\ ing[2].insertError = UniqueMessage
    /\ \E k \in 1..Len(ing[2].products) : ing[2].products[k].url = UrlA
    /\ ing[2].response.status = 500

----------------------------------------------------------------------------
(* Properties of the Field Normalizer *)

\* The cooler_type the call's object came with, and the one of the row made
\* of it.
CoolerIn(c) == ing[c].extractedData[1].cooler_type
CoolerOut(c) == ing[c].products[1].cooler_type

\* C19: normalizeCoolerType is idempotent: for every input string x, the empty
\* string and unrecognized values included, normalizeCoolerType of
\* normalizeCoolerType(x) is normalizeCoolerType(x).
C19_NormalizeIsIdempotent ==
    \A c \in CallIds :
        /\ ing[c].pc = "inserting" =>
            /\ CoolerOut(c) = normalizeCoolerType(CoolerIn(c))
            /\ normalizeCoolerType(CoolerOut(c)) = CoolerOut(c)
        /\ ing[c].pc = "cleaned" =>
            /\ CoolerOut(c) = normalizeCoolerTypeSingle(CoolerIn(c))
            /\ normalizeCoolerTypeSingle(CoolerOut(c)) = CoolerOut(c)

C19_Witness ==
    /\ ing[1].pc = "inserting" /\ CoolerIn(1) = "TRIPLE" /\ CoolerOut(1) = "Triple"
    /\ ing[2].pc = "cleaned" /\ CoolerIn(2) = "Blower" /\ CoolerOut(2) = "Blower"

\* The normalization the claim describes: without regard to case, 'dual' and
\* '2' are Dual, 'triple', 'tripple' and '3' are Triple, the empty string is
\* the empty string, every other value is itself.
StatedNormalization(x) ==
    CASE x \in {"dual", "DUAL", "Dual", "2"} -> "Dual"
      [] x \in {"triple", "TRIPLE", "Triple", "tripple", "Tripple", "3"} -> "Triple"
      [] OTHER -> x

\* C20: normalizeCoolerType as ingestion uses it maps, without regard to case,
\* 'dual' and '2' to 'Dual' and 'triple', 'tripple' and '3' to 'Triple', the
\* empty string to the empty string and every other value to itself.
C20_NormalizeAsStated ==
    \A c \in CallIds :
        ing[c].pc = "inserting" => CoolerOut(c) = StatedNormalization(CoolerIn(c))

\* The urls of the records the call has passed to its bulk insert.
ProductUrls(c) == {ing[c].products[k].url : k \in 1..Len(ing[c].products)}

\* Both calls have passed the duplicate check for url, the insert of call
\* first has stored it, and call second has issued its insert with it.
InsertedSecond(first, second, url) ==
    /\ first # second
    /\ PassedDuplicateCheck(first, url)
    /\ PassedDuplicateCheck(second, url)
    /\ url \in InsertedUrls(first)
    /\ ing[second].nInsert = 1
    /\ url \in ProductUrls(second)

\* C27: when two concurrent ingest calls have both passed the duplicate check
\* for a shared url, the call whose insert comes second gets the uniqueness
\* violation as a store error: it answers success=false with a database error
\* and none of its records is stored, those for its other urls included.
C27_SecondInsertFailsWhole ==
    \A first, second \in CallIds : \A url \in URLS :
        InsertedSecond(first, second, url) =>
            /\ ing[second].insertError # ""
            /\ ing[second].pc = "done"
            /\ ing[second].response.success = FALSE
            /\ ing[second].response.status = 500
            /\ ing[second].response.message = "Database error: "
            /\ Len(store) = ing[first].rowsBefore + Len(ing[first].products)
            /\ \A u \in ProductUrls(second) \ InsertedUrls(first) :
                u \notin StoreUrls(store)

C27_Witness ==
    /\ InsertedSecond(1, 2, UrlA)
    /\ ProductUrls(1) = {UrlA}
    /\ ProductUrls(2) = {UrlA, UrlB}
    /\ ing[2].insertError = UniqueMessage
    /\ StoreUrls(store) = {UrlA}

----------------------------------------------------------------------------
(* Properties of the record lifecycle *)

\* The two rows agree in every field but the price, the stock and the
\* timestamps.
SameIdentity(old, new) ==
    /\ new.url = old.url
    /\ new.retailer = old.retailer
    /\ new.cooler_type = old.cooler_type

\* A step of an ingest call leaves every stored row as it is, in its place.
IngestOnlyAdds ==
    ing' # ing =>
        /\ Len(store') >= Len(store)
        /\ SubSeq(store', 1, Len(store)) = store

\* A step of the price-refresh run adds and removes no row, touches no row but
\* the one it is at, and changes nothing of that row but price, stock and
\* timestamps.
RefreshOnlyUpdates ==
    ref' # ref =>
        /\ Len(store') = Len(store)
        /\ \A k \in 1..Len(store) :
            /\ SameIdentity(store[k], store'[k])
            /\ k # ref.i => store'[k] = store[k]

\* C26: a batch ingest call only adds records and never modifies or deletes a
\* stored record; a price-refresh run never inserts or deletes a record and
\* changes only the price, stock and timestamp fields of the records it
\* updates.
C26_LifecycleFrame == [][IngestOnlyAdds /\ RefreshOnlyUpdates]_vars

C26_Witness ==
    /\ ing[1].nInsert = 1
    /\ ing[1].insertError = ""
    /\ ing[1].rowsBefore = 1
    /\ Len(store) = 2
    /\ ref.pc = "done"
    /\ Len(ref.products) = 2
    /\ ref.updates = <<1, 2>>
    /\ store[2].url = UrlA
    /\ store[2].price = Num("279.99")

----------------------------------------------------------------------------
(* Properties of the page's abort *)

\* The step in which the page observes the abort changes nothing of the call
\* but the page's own state, and nothing of the store.
AbortLeavesCall ==
    \A c \in CallIds :
        (ing'[c].clientAborted /\ ~ing[c].clientAborted) =>
            /\ ing'[c] = [ing[c] EXCEPT !.clientAborted = TRUE,
                                        !.abortedAt = ing[c].pc]
            /\ store' = store

\* A call that has not answered can take its next step, aborted or not.
AbortedCallGoesOn ==
    \A c \in CallIds :
        (ing[c].clientAborted /\ ing[c].pc # "done") => ENABLED IngestStep(c)

\* C28: the page's abort of the ingest request after its timeout cancels
\* neither the job nor the server's ingest: the call is left as it is and can
\* still take every step, so that a record can be stored after the page has
\* reported the timeout.
C28_AbortCancelsNothing == [][AbortLeavesCall]_vars /\ []AbortedCallGoesOn

C28_Witness ==
    \E c \in CallIds :
        /\ ing[c].clientAborted
        /\ ing[c].abortedAt = "polling"
        /\ ing[c].pc = "done"
        /\ ing[c].nInsert = 1
        /\ ing[c].insertError = ""
        /\ ing[c].response.success
        /\ Len(store) = ing[c].rowsBefore + Len(ing[c].products)
        /\ Len(ing[c].products) >= 1

----------------------------------------------------------------------------
(* Properties of a repeated price refresh *)

\* Every update the first run issued was accepted by the store.
FirstRunWroteAll ==
    \A id \in 1..Len(ref.firstUpdateCalls) :
        ref.firstUpdateCalls[id] = 1 => id \in Range(ref.firstUpdates)

\* C29: the price refresh is idempotent against an unchanged remote: a second
\* run that follows a completed run, every page answering as before, issues
\* no store update and reports updated = 0, whatever the scrape results are,
\* a missing or unparseable price included.
C29_SecondRunUpdatesNothing ==
    (ref.run = 2 /\ FirstRunWroteAll) =>
        /\ ref.updates = <<>>
        /\ \A id \in 1..Len(ref.updateCalls) : ref.updateCalls[id] = 0
        /\ ref.pc = "done" => ref.response.updated = 0

----------------------------------------------------------------------------
(* Properties of the price a refresh writes *)

\* The scrape has answered the extracted data and its price is a number (or,
\* for the endpoint, a string that parseFloat reads as one).
ScrapedNumber(reply) ==
    /\ reply.transport /\ reply.ok /\ reply.parseable /\ reply.hasData
    /\ ParseFloat(reply.price) # NaN

\* C30: a price refresh only writes a price obtained as a number from a
\* successful scrape of the record's url: a scrape whose price is missing or
\* is not a number leaves the stored price as it was, and the record is
\* counted as an error or as unchanged, never as updated.
C30_OnlyScrapedNumbersAreWritten ==
    \A k \in 1..Len(ref.replies) :
        /\ store[k].price # ref.products[k].price =>
              /\ ScrapedNumber(ref.replies[k])
              /\ store[k].price = ParseFloat(ref.replies[k].price)
        /\ ~ScrapedNumber(ref.replies[k]) =>
              /\ store[k].price = ref.products[k].price
              /\ k \in Range(ref.errors) \/ k \notin Range(ref.updates)

====
